---- MODULE Spec2Model ----
(***************************************************************************)
(* Model of data_loader.py: the MySet dataset (line store, seeded          *)
(* train/validation split, __getitem__ tagging), the collate function      *)
(* that packs a list of records into tensors, and the loader built by      *)
(* get_loader.                                                             *)
(*                                                                         *)
(* Python values are modelled as follows.  A dict is a TLA+ record (a      *)
(* function on strings); a list is a sequence; Python's 0-based index i    *)
(* is position i + 1 of the sequence.  A float val_ratio is the exact      *)
(* rational <<num, den>>; the ratios used are ones whose float products    *)
(* n * val_ratio round as the exact rationals do for every n the model     *)
(* reaches.  JSON numbers are integers.  A failed call is recorded by the  *)
(* name of the exception Python raises.                                    *)
(***************************************************************************)
EXTENDS Integers, Sequences, FiniteSets, TLC

(* ---------------------------- bounds ----------------------------------- *)
MaxN == 5          \* longest file in the split specification
MaxLines == 2      \* longest file in the dataset specification
MaxSeed == 2       \* seeds range over -1 .. MaxSeed
MaxObjs == 2       \* records the callers hold at once
MaxB == 2          \* longest list handed to collate_fn
MaxT == 2          \* longest time series of an example
MaxF == 2          \* longest field vector of a time step
MaxBS == 3         \* largest batch_size given to get_loader
MaxLoaderN == 4    \* longest file in the loader specification

(* ------------------------ program constants ---------------------------- *)
DefaultValRatio == <<1, 5>>     \* val_ratio: float = 0.2
DefaultSeed == 42               \* seed: int = 42
DefaultBatchSize == 64          \* batch_size: int = 64
max_suggested == 2              \* max_suggested = 2

Fields == <<"values", "masks", "deltas", "forwards", "evals", "eval_masks">>

VARIABLES
  status,       \* "new" | "open" | "failed": the MySet object under construction
  content,      \* self.content: the lines of the file
  val_indices,  \* self.val_indices
  args,         \* the arguments __init__ was called with
  entropy,      \* the operating system's entropy source (what an unseeded generator reads)
  other,        \* a second, independent MySet construction
  objs,         \* the records returned by __getitem__ that callers still hold
  ret,          \* the last call and its result
  loader        \* the DataLoader built by get_loader and its iteration

vars == <<status, content, val_indices, args, entropy, other, objs, ret, loader>>

(* ------------------------------ helpers --------------------------------- *)
Max(a, b) == IF a >= b THEN a ELSE b

Min(a, b) == IF a <= b THEN a ELSE b

Range(s) == {s[k] : k \in 1..Len(s)}

SeqsUpTo(S, n) == UNION {[1..k -> S] : k \in 0..n}

(* ------------------------- the lines of a file -------------------------- *)
\* The value a JSON number takes in an example: distinct for every
\* (example, direction, time step, field, position).
Code(id, d, t, k, j) == id * 10000 + d * 1000 + t * 100 + k * 10 + j

Wide == 16777216    \* 2^24: above it odd integers are not 32-bit floats

VecLen(p, d, t, k) ==
  p.F + (IF p.quirk = "masksF" /\ k = 2 THEN 1 ELSE 0)
      + (IF p.quirk = "ragged" /\ k = 1 /\ d = 0 /\ t = p.T THEN 1 ELSE 0)

MkStep(p, d, t) ==
  [f \in Range(Fields) |->
     LET k == CHOOSE i \in 1..6 : Fields[i] = f
     IN [j \in 1..VecLen(p, d, t, k) |->
           (IF p.quirk = "wide" THEN Wide ELSE 0) + Code(p.id, d, t, k, j)]]

MkSeries(p, d) ==
  [t \in 1..(p.T + (IF p.quirk = "bwdT" /\ d = 1 THEN 1 ELSE 0)) |-> MkStep(p, d, t)]

MkLabel(p) == (IF p.quirk = "wide" THEN Wide + 1 ELSE 0) + 10 + 2 * p.id

\* The JSON object of one line, built from its parameters.
MkObject(p) ==
  IF p.quirk = "nolabel"
  THEN [forward |-> MkSeries(p, 0), backward |-> MkSeries(p, 1)]
  ELSE [forward |-> MkSeries(p, 0), backward |-> MkSeries(p, 1), label |-> MkLabel(p)]

NoObject == [junk |-> 0]

NoBatch == NoObject

\* A line of the file: text that is no JSON, a JSON array, or a JSON object.
GarbageLine == [kind |-> "garbage", doc |-> NoObject]

ArrayLine == [kind |-> "array", doc |-> NoObject]

ObjectLine(p) == [kind |-> "object", doc |-> MkObject(p)]

Small(id) == [T |-> 1, F |-> 1, quirk |-> "none", id |-> id]

NoLabel(id) == [T |-> 1, F |-> 1, quirk |-> "nolabel", id |-> id]

(* --------------------------- MySet.__init__ ----------------------------- *)
\* py_round with a tie rounded up instead of to the even integer.
py_round_half_up(p, q) == (2 * p + q) \div (2 * q)

\* round(n * val_ratio) for val_ratio = num / den: Python rounds half to even.
py_round(p, q) ==
  LET f == p \div q
      r == 2 * (p % q)
  IN IF r < q THEN f
     ELSE IF r > q THEN f + 1
     ELSE IF f % 2 = 0 THEN f ELSE f + 1

\* val_sz = max(1, int(round(n * val_ratio)))
ValSz(n, val_ratio) == Max(1, py_round(n * val_ratio[1], val_ratio[2]))

\* default_rng called without its seed: the state comes from the entropy source.
default_rng_unseeded(seed) == entropy

\* np.random.default_rng(seed): the generator's state is a function of the
\* seed alone; a negative seed is rejected.
default_rng(seed) == seed % 16

\* one draw of the generator: the next state
NextState(s) == (5 * s + 3) % 16

Swap(idx, a, b) == [idx EXCEPT ![a] = idx[b], ![b] = idx[a]]

\* rng.choice(indices, size, replace=False): shuffle the last `size`
\* positions of the index array with draws of the generator and return them.
RECURSIVE TailShuffle(_, _, _, _)
TailShuffle(idx, s, i, stop) ==
  IF i < stop \/ i < 2 THEN idx
  ELSE LET s2 == NextState(s)
           j == (s2 % i) + 1
       IN TailShuffle(Swap(idx, i, j), s2, i - 1, stop)

Choice(n, size, s) ==
  LET idx == TailShuffle([k \in 1..n |-> k - 1], s, n, n - size + 1)
  IN {idx[k] : k \in (n - size + 1)..n}

\* The body of __init__ after the file is read: the validation index set,
\* or the exception raised.
Assign(n, val_ratio, seed) ==
  IF seed < 0 THEN [err |-> "ValueError", val |-> {}]
  ELSE LET val_sz == ValSz(n, val_ratio)
       IN IF val_sz > n THEN [err |-> "ValueError", val |-> {}]
          ELSE [err |-> "none", val |-> Choice(n, val_sz, default_rng(seed))]

NoArgs == [exists |-> FALSE, n |-> 0, val_ratio |-> <<0, 1>>, seed |-> 0]

NoRet == [op |-> "none", arg |-> <<>>, err |-> "none", id |-> 0, val |-> NoObject]

NoOther == [done |-> FALSE, err |-> "none", content |-> <<>>, val_indices |-> {},
            n |-> 0, val_ratio |-> <<0, 1>>, seed |-> 0]

NoLoader ==
  [pc |-> "none", err |-> "none", batch_size |-> 0, shuffle |-> FALSE, num_workers |-> 0,
   batches |-> <<>>, queues |-> <<>>, results |-> {}, send_idx |-> 0, rcvd_idx |-> 0,
   delivered |-> <<>>, requested |-> <<>>]

\* MySet.__init__(path, val_ratio, seed); `exists` is os.path.exists(path)
\* and `file` the lines of the file.
MySet(exists, file, val_ratio, seed) ==
  /\ status = "new"
  /\ LET a == Assign(Len(file), val_ratio, seed)
     IN IF ~exists
        THEN /\ status' = "failed"
             /\ content' = <<>>
             /\ val_indices' = {}
             /\ ret' = [NoRet EXCEPT !.op = "init", !.err = "FileNotFoundError"]
        ELSE /\ status' = IF a.err = "none" THEN "open" ELSE "failed"
             /\ content' = file
             /\ val_indices' = a.val
             /\ ret' = [NoRet EXCEPT !.op = "init", !.err = a.err]
  /\ args' = [exists |-> exists, n |-> Len(file), val_ratio |-> val_ratio, seed |-> seed]

\* A caller constructs the dataset.
Open(exists, file, val_ratio, seed) ==
  /\ MySet(exists, file, val_ratio, seed)
  /\ UNCHANGED <<entropy, other, objs, loader>>

\* A second MySet built independently of the first.
OpenOther(file, val_ratio, seed) ==
  /\ ~other.done
  /\ LET a == Assign(Len(file), val_ratio, seed)
     IN other' = [done |-> TRUE, err |-> a.err, content |-> file, val_indices |-> a.val,
                  n |-> Len(file), val_ratio |-> val_ratio, seed |-> seed]
  /\ UNCHANGED <<status, content, val_indices, args, entropy, objs, ret, loader>>

\* The entropy source moves on between any two calls.
EntropyStep ==
  /\ entropy' = 1 - entropy
  /\ UNCHANGED <<status, content, val_indices, args, other, objs, ret, loader>>

(* -------------------------- MySet.__getitem__ --------------------------- *)
\* self.content[idx]: a negative index counts from the end of the list.
Resolve(n, idx) == IF idx >= 0 THEN idx ELSE n + idx

\* rec['is_train'] = v on a dict
SetItem(rec, key, v) ==
  [k \in (DOMAIN rec) \cup {key} |-> IF k = key THEN v ELSE rec[k]]

\* GetItem with the two tags exchanged.
GetItemFlipped(lines, val, idx) ==
  LET n == Len(lines)
      i == Resolve(n, idx)
  IN IF i < 0 \/ i >= n THEN [err |-> "IndexError", rec |-> NoObject]
     ELSE LET line == lines[i + 1]
          IN IF line.kind = "garbage" THEN [err |-> "ValueError", rec |-> NoObject]
             ELSE IF line.kind = "array" THEN [err |-> "TypeError", rec |-> NoObject]
             ELSE [err |-> "none",
                   rec |-> SetItem(line.doc, "is_train", IF idx \in val THEN 1 ELSE 0)]

\* The body of __getitem__: the record returned, or the exception raised.
GetItem(lines, val, idx) ==
  LET n == Len(lines)
      i == Resolve(n, idx)
  IN IF i < 0 \/ i >= n THEN [err |-> "IndexError", rec |-> NoObject]
     ELSE LET line == lines[i + 1]
          IN IF line.kind = "garbage" THEN [err |-> "ValueError", rec |-> NoObject]
             ELSE IF line.kind = "array" THEN [err |-> "TypeError", rec |-> NoObject]
             ELSE [err |-> "none",
                   rec |-> SetItem(line.doc, "is_train", IF idx \in val THEN 0 ELSE 1)]

\* Get that takes the line out of the store as it reads it.
GetPopping(idx) ==
  /\ status = "open"
  /\ Len(objs) < MaxObjs
  /\ LET g == GetItem(content, val_indices, idx)
         i == Resolve(Len(content), idx)
     IN IF g.err = "none"
        THEN /\ objs' = Append(objs, g.rec)
             /\ content' = SubSeq(content, 1, i) \o SubSeq(content, i + 2, Len(content))
             /\ ret' = [NoRet EXCEPT !.op = "get", !.arg = <<idx>>, !.id = Len(objs) + 1]
        ELSE /\ objs' = objs
             /\ content' = content
             /\ ret' = [NoRet EXCEPT !.op = "get", !.arg = <<idx>>, !.err = g.err]
  /\ UNCHANGED <<status, val_indices, args, entropy, other, loader>>

\* dataset[idx]: the caller receives a newly built record.
Get(idx) ==
  /\ status = "open"
  /\ Len(objs) < MaxObjs
  /\ LET g == GetItem(content, val_indices, idx)
     IN IF g.err = "none"
        THEN /\ objs' = Append(objs, g.rec)
             /\ ret' = [NoRet EXCEPT !.op = "get", !.arg = <<idx>>, !.id = Len(objs) + 1]
        ELSE /\ objs' = objs
             /\ ret' = [NoRet EXCEPT !.op = "get", !.arg = <<idx>>, !.err = g.err]
  /\ UNCHANGED <<status, content, val_indices, args, entropy, other, loader>>

\* len(dataset)
GetLen ==
  /\ status = "open"
  /\ ret' = [NoRet EXCEPT !.op = "len", !.id = Len(content)]
  /\ UNCHANGED <<status, content, val_indices, args, entropy, other, objs, loader>>

\* A caller overwrites a field of a record it was given.
Mutate(id) ==
  /\ id \in 1..Len(objs)
  /\ objs' = [objs EXCEPT ![id] = SetItem(@, "is_train", 0 - 1)]
  /\ ret' = [NoRet EXCEPT !.op = "mutate", !.arg = <<id>>]
  /\ UNCHANGED <<status, content, val_indices, args, entropy, other, loader>>

(* ------------------------------ collate_fn ------------------------------ *)
\* The 32-bit float nearest to an integer 0 <= v < 2^25 (ties to the even
\* mantissa): exact up to 2^24, a multiple of 2 above it.
Float32(v) ==
  IF v <= Wide \/ v % 2 = 0 THEN v
  ELSE IF (v \div 2) % 2 = 0 THEN v - 1 ELSE v + 1

\* torch.tensor(x, dtype=torch.float32) of a list of numbers
Tensor1(x) ==
  [err |-> "none", shape |-> <<Len(x)>>, data |-> [b \in 1..Len(x) |-> Float32(x[b])]]

\* torch.tensor(x, dtype=torch.float32) of a list of lists of lists of
\* numbers: the shape is read off the first elements and every other element
\* must agree with it.
Tensor3(x) ==
  LET B == Len(x)
      T == IF B = 0 THEN 0 ELSE Len(x[1])
      F == IF T = 0 THEN 0 ELSE Len(x[1][1])
  IN IF \E b \in 1..B : Len(x[b]) # T \/ \E t \in 1..Len(x[b]) : Len(x[b][t]) # F
     THEN [err |-> "ValueError", shape |-> <<>>, data |-> <<>>]
     ELSE [err |-> "none",
           shape |-> IF B = 0 THEN <<0>> ELSE IF T = 0 THEN <<B, 0>> ELSE <<B, T, F>>,
           data |-> [b \in 1..B |-> [t \in 1..T |-> [j \in 1..F |-> Float32(x[b][t][j])]]]]

\* pack_time_series with the masks tensor built from the values lists.
pack_time_series_copied(recs) ==
  IF \E b \in 1..Len(recs) : \E t \in 1..Len(recs[b]) :
       \E k \in 1..6 : Fields[k] \notin DOMAIN recs[b][t]
  THEN [err |-> "KeyError", val |-> NoBatch]
  ELSE LET tens == [f \in Range(Fields) |->
                      Tensor3([b \in 1..Len(recs) |->
                                 [t \in 1..Len(recs[b]) |->
                                    recs[b][t][IF f = "masks" THEN "values" ELSE f]]])]
       IN IF \E f \in Range(Fields) : tens[f].err # "none"
          THEN [err |-> "ValueError", val |-> NoBatch]
          ELSE [err |-> "none", val |-> tens]

\* _pack_time_series(recs): one tensor per field, or the exception raised.
pack_time_series(recs) ==
  IF \E b \in 1..Len(recs) : \E t \in 1..Len(recs[b]) :
       \E k \in 1..6 : Fields[k] \notin DOMAIN recs[b][t]
  THEN [err |-> "KeyError", val |-> NoBatch]
  ELSE LET tens == [f \in Range(Fields) |->
                      Tensor3([b \in 1..Len(recs) |->
                                 [t \in 1..Len(recs[b]) |-> recs[b][t][f]]])]
       IN IF \E f \in Range(Fields) : tens[f].err # "none"
          THEN [err |-> "ValueError", val |-> NoBatch]
          ELSE [err |-> "none", val |-> tens]

\* collate_fn(recs): the batch, or the exception raised.
collate_fn(recs) ==
  LET B == Len(recs)
  IN IF \E b \in 1..B : "forward" \notin DOMAIN recs[b]
     THEN [err |-> "KeyError", val |-> NoBatch]
     ELSE IF \E b \in 1..B : "backward" \notin DOMAIN recs[b]
     THEN [err |-> "KeyError", val |-> NoBatch]
     ELSE LET forward == pack_time_series([b \in 1..B |-> recs[b].forward])
              backward == pack_time_series([b \in 1..B |-> recs[b].backward])
          IN IF forward.err # "none" THEN [err |-> forward.err, val |-> NoBatch]
             ELSE IF backward.err # "none" THEN [err |-> backward.err, val |-> NoBatch]
             ELSE IF \E b \in 1..B : "label" \notin DOMAIN recs[b]
             THEN [err |-> "KeyError", val |-> NoBatch]
             ELSE IF \E b \in 1..B : "is_train" \notin DOMAIN recs[b]
             THEN [err |-> "KeyError", val |-> NoBatch]
             ELSE [err |-> "none",
                   val |-> [forward |-> forward.val,
                            backward |-> backward.val,
                            labels |-> Tensor1([b \in 1..B |-> recs[b].label]),
                            is_train |-> Tensor1([b \in 1..B |-> recs[b].is_train])]]

\* collate_fn called on the held records ids[1], ids[2], ...
Collate(ids) ==
  /\ \A k \in 1..Len(ids) : ids[k] \in 1..Len(objs)
  /\ LET c == collate_fn([k \in 1..Len(ids) |-> objs[ids[k]]])
     IN ret' = [NoRet EXCEPT !.op = "collate", !.arg = ids, !.err = c.err, !.val = c.val]
  /\ UNCHANGED <<status, content, val_indices, args, entropy, other, objs, loader>>

(* ------------------------ the dataset specification --------------------- *)
DataLines == {GarbageLine, ArrayLine, ObjectLine(NoLabel(0)), ObjectLine(Small(1))}

OpenData ==
  \E file \in SeqsUpTo(DataLines, MaxLines),
     a \in {<<DefaultValRatio, 0>>, <<DefaultValRatio, 1>>, <<<<3, 4>>, 0>>} :
    Open(TRUE, file, a[1], a[2])

GetAny == \E idx \in (0 - MaxLines - 1)..MaxLines : Get(idx)

MutateAny == \E id \in 1..MaxObjs : Mutate(id)

CollateAny == \E ids \in SeqsUpTo(1..MaxObjs, MaxB) : Collate(ids)

(* ------------------------------ get_loader ------------------------------ *)
drop_last_true == TRUE     \* the loader built with drop_last=True

drop_last == FALSE      \* drop_last=False

prefetch_factor == 2    \* DataLoader's default: tasks primed per worker

\* The batch sampler of the DataLoader: the sampled order cut into lists of
\* batch_size indices; a shorter last list is kept unless drop_last.
RECURSIVE BatchSampler(_, _)
BatchSampler(order, batch_size) ==
  IF Len(order) = 0 THEN <<>>
  ELSE IF Len(order) < batch_size
  THEN IF drop_last THEN <<>> ELSE <<order>>
  ELSE <<SubSeq(order, 1, batch_size)>>
         \o BatchSampler(SubSeq(order, batch_size + 1, Len(order)), batch_size)

\* The orders the sampler can produce: range(n), or any permutation of it.
Orders(n, shuffle) ==
  IF shuffle
  THEN {o \in [1..n -> 0..(n - 1)] : \A a, b \in 1..n : o[a] = o[b] => a = b}
  ELSE {[k \in 1..n |-> k - 1]}

\* get_loader(batch_size, shuffle); `exists` and `file` describe ./json/json
\* and cpu_cnt is os.cpu_count() (0 for None).
get_loader(exists, file, batch_size, shuffle, cpu_cnt) ==
  /\ loader.pc = "none"
  /\ MySet(exists, file, DefaultValRatio, DefaultSeed)
  /\ LET a == Assign(Len(file), DefaultValRatio, DefaultSeed)
         num_workers == Min(max_suggested, IF cpu_cnt = 0 THEN 2 ELSE cpu_cnt)
     IN loader' =
          IF ~exists THEN [NoLoader EXCEPT !.pc = "failed", !.err = "FileNotFoundError"]
          ELSE IF a.err # "none" THEN [NoLoader EXCEPT !.pc = "failed", !.err = a.err]
          ELSE IF batch_size <= 0 THEN [NoLoader EXCEPT !.pc = "failed", !.err = "ValueError"]
          ELSE [NoLoader EXCEPT !.pc = "ready", !.batch_size = batch_size,
                                !.shuffle = shuffle, !.num_workers = num_workers]
  /\ UNCHANGED <<entropy, other, objs>>

\* iter(loader): the sampler fixes the order, the batch sampler cuts it, and
\* the first prefetch_factor * num_workers tasks go to the workers in turn.
Iter ==
  /\ loader.pc = "ready"
  /\ \E order \in Orders(Len(content), loader.shuffle) :
       LET batches == BatchSampler(order, loader.batch_size)
           W == loader.num_workers
           sent == Min(prefetch_factor * W, Len(batches))
       IN loader' = [loader EXCEPT
            !.pc = "iter",
            !.batches = batches,
            !.send_idx = sent,
            !.queues = [w \in 1..W |->
                          [j \in 1..Cardinality({k \in 0..(sent - 1) : k % W = w - 1}) |->
                             (j - 1) * W + (w - 1)]],
            !.requested = [i \in 1..Len(content) |-> 0]]
  /\ UNCHANGED <<status, content, val_indices, args, entropy, other, objs, ret>>

\* A worker fetches one list of indices: dataset[i] for each in order, then
\* collate_fn; the first exception ends the fetch.
Fetch(indices) ==
  LET gets == [k \in 1..Len(indices) |-> GetItem(content, val_indices, indices[k])]
      bad == {k \in 1..Len(indices) : gets[k].err # "none"}
  IN IF bad # {}
     THEN LET k == CHOOSE x \in bad : \A y \in bad : x <= y
          IN [err |-> gets[k].err, val |-> NoBatch, asked |-> k]
     ELSE LET c == collate_fn([k \in 1..Len(indices) |-> gets[k].rec])
          IN [err |-> c.err, val |-> c.val, asked |-> Len(indices)]

\* Worker w takes the next task of its queue and puts the result back.
WorkerStep(w) ==
  /\ loader.pc = "iter"
  /\ w \in 1..loader.num_workers
  /\ loader.queues[w] # <<>>
  /\ LET k == Head(loader.queues[w])
         indices == loader.batches[k + 1]
         f == Fetch(indices)
     IN loader' = [loader EXCEPT
          !.queues[w] = Tail(@),
          !.results = @ \cup {[k |-> k, err |-> f.err, val |-> f.val]},
          !.requested = [i \in 1..Len(content) |->
                           @[i] + Cardinality({j \in 1..f.asked : indices[j] = i - 1})]]
  /\ UNCHANGED <<status, content, val_indices, args, entropy, other, objs, ret>>

\* next(iterator) when the result of the next task in order has arrived: one
\* more task is handed out, then the batch is returned or its exception raised.
NextBatch ==
  /\ loader.pc = "iter"
  /\ loader.rcvd_idx < loader.send_idx
  /\ \E res \in loader.results :
       /\ res.k = loader.rcvd_idx
       /\ LET more == loader.send_idx < Len(loader.batches)
              w == (loader.send_idx % loader.num_workers) + 1
          IN loader' = [loader EXCEPT
               !.rcvd_idx = @ + 1,
               !.results = @ \ {res},
               !.send_idx = IF more THEN @ + 1 ELSE @,
               !.queues = IF more THEN [@ EXCEPT ![w] = Append(@, loader.send_idx)] ELSE @,
               !.pc = IF res.err = "none" THEN "iter" ELSE "failed",
               !.err = res.err,
               !.delivered = IF res.err = "none" THEN Append(@, res.val) ELSE @]
  /\ UNCHANGED <<status, content, val_indices, args, entropy, other, objs, ret>>

\* next(iterator) when no task is outstanding: the pass is over.
StopIteration ==
  /\ loader.pc = "iter"
  /\ loader.rcvd_idx >= loader.send_idx
  /\ loader' = [loader EXCEPT !.pc = "done"]
  /\ UNCHANGED <<status, content, val_indices, args, entropy, other, objs, ret>>

(* ------------------------- the split specification ---------------------- *)
Ratios == {<<0 - 1, 4>>, <<0, 1>>, <<1, 5>>, <<1, 4>>, <<1, 2>>, <<3, 4>>, <<1, 1>>, <<3, 2>>}

Seeds == (0 - 1)..MaxSeed

SplitLines == {GarbageLine, ObjectLine(Small(0))}

InitNew ==
  /\ status = "new"
  /\ content = <<>>
  /\ val_indices = {}
  /\ args = NoArgs
  /\ entropy = 0
  /\ other = NoOther
  /\ objs = <<>>
  /\ ret = NoRet
  /\ loader = NoLoader

OpenSplit ==
  \E n \in 0..MaxN, l \in SplitLines, r \in Ratios, s \in Seeds, e \in BOOLEAN :
    Open(e, [k \in 1..n |-> l], r, s)

OpenOtherSplit ==
  \E l \in SplitLines, s \in Seeds :
    /\ status # "new"
    /\ args.exists
    /\ OpenOther([k \in 1..args.n |-> l], args.val_ratio, s)

NextSplit == OpenSplit \/ OpenOtherSplit \/ EntropyStep

SpecSplit == InitNew /\ [][NextSplit]_vars

(* ------------------------ the collate specification --------------------- *)
Quirks == {"none", "masksF", "ragged", "bwdT", "wide", "nolabel"}

Shapes == {[T |-> 0, F |-> 1]} \cup {[T |-> t, F |-> f] : t \in 1..MaxT, f \in 1..MaxF}

\* The records a caller can hand to collate_fn: JSON objects tagged by __getitem__.
Examples ==
  {SetItem(MkObject([T |-> sh.T, F |-> sh.F, quirk |-> q, id |-> i]), "is_train", i) :
     sh \in Shapes, q \in Quirks, i \in 0..1}

InitCollate ==
  /\ status = "new"
  /\ content = <<>>
  /\ val_indices = {}
  /\ args = NoArgs
  /\ entropy = 0
  /\ other = NoOther
  /\ objs \in SeqsUpTo(Examples, MaxB)
  /\ ret = NoRet
  /\ loader = NoLoader

CollateAll == ret.op = "none" /\ Collate([k \in 1..Len(objs) |-> k])

NextCollate == CollateAll

SpecCollate == InitCollate /\ [][NextCollate]_vars

(* ------------------------ the loader specification ---------------------- *)
LoaderFiles ==
  UNION {{[k \in 1..n |-> ObjectLine(Small(k % 2))],
          [k \in 1..n |-> IF k = n THEN GarbageLine ELSE ObjectLine(Small(k % 2))],
          [k \in 1..n |-> ObjectLine([T |-> 1 + (k \div n), F |-> 1, quirk |-> "none", id |-> 0])]} :
         n \in 0..MaxLoaderN}

GetLoaderAny ==
  \E e \in BOOLEAN, file \in LoaderFiles, bs \in 0..MaxBS \cup {DefaultBatchSize},
     sh \in BOOLEAN, cpu \in 0..2 :
    get_loader(e, file, bs, sh, cpu)

WorkerAny == \E w \in 1..max_suggested : WorkerStep(w)

NextLoader == GetLoaderAny \/ Iter \/ WorkerAny \/ NextBatch \/ StopIteration

SpecLoader == InitNew /\ [][NextLoader]_vars

Next == OpenData \/ GetAny \/ GetLen \/ MutateAny \/ CollateAny

Spec == InitNew /\ [][Next]_vars

(* ================================ claims ================================ *)
\* The records handed to the last collate_fn call.
Recs == [k \in 1..Len(ret.arg) |-> objs[ret.arg[k]]]

N == Len(content)

(* C1: once the dataset is open, the validation set lies within [0, N), so
   it and its complement (the train set) partition [0, N); and a get(i) with
   i in [0, N) that returns a record tags it 0 or 1, with 0 exactly when i is
   in the validation set. *)
C1_TagMatchesSplit ==
  status = "open" =>
    /\ val_indices \subseteq 0..(N - 1)
    /\ LET train == (0..(N - 1)) \ val_indices
       IN train \cup val_indices = 0..(N - 1) /\ train \cap val_indices = {}
    /\ (ret.op = "get" /\ ret.err = "none" /\ ret.arg[1] \in 0..(N - 1)) =>
         /\ objs[ret.id].is_train \in {0, 1}
         /\ objs[ret.id].is_train = 0 <=> ret.arg[1] \in val_indices

C1_Witness ==
  /\ status = "open" /\ N = 2
  /\ ret.op = "get" /\ ret.err = "none"
  /\ ret.arg[1] \in val_indices
  /\ objs[ret.id].is_train = 0

\* The nearest integer to p / q (p >= 0, q > 0), a tie going to the even one.
NearestInt(p, q) ==
  CHOOSE k \in 0..(p + 1) :
    \/ 2 * k * q - 2 * p < q /\ 2 * p - 2 * k * q < q
    \/ (2 * k * q - 2 * p = q \/ 2 * p - 2 * k * q = q) /\ k % 2 = 0

ValidRatio(r) == r[1] > 0 /\ r[1] < r[2]

(* C2: for N >= 1 and 0 < val_ratio < 1 the validation set built by the
   constructor has exactly max(1, round(N * val_ratio)) distinct indices, all
   in [0, N), and never more than N (round is Python's: a tie goes to the even
   integer); N=5, ratio 0.2 gives 1, N=3, ratio 0.5 gives 2, N=1 gives {0}. *)
C2_ValSize ==
  (status = "open" /\ args.n >= 1 /\ ValidRatio(args.val_ratio)) =>
    /\ Cardinality(val_indices)
         = Max(1, NearestInt(args.n * args.val_ratio[1], args.val_ratio[2]))
    /\ val_indices \subseteq 0..(args.n - 1)
    /\ Cardinality(val_indices) <= args.n
    /\ (args.n = 5 /\ args.val_ratio = <<1, 5>>) => Cardinality(val_indices) = 1
    /\ (args.n = 3 /\ args.val_ratio = <<1, 2>>) => Cardinality(val_indices) = 2
    /\ args.n = 1 => val_indices = {0} /\ (0..(N - 1)) \ val_indices = {}

C2_Witness ==
  /\ status = "open" /\ args.n = 5 /\ args.val_ratio = <<1, 2>>
  /\ Cardinality(val_indices) = 2

(* C3: two independent constructions with the same (N, val_ratio, seed) end
   the same way and yield the same validation set, hence the same tag for
   every index, whatever the lines hold and whatever the entropy source
   holds. *)
C3_Deterministic ==
  (status # "new" /\ args.exists /\ other.done
     /\ other.n = args.n /\ other.val_ratio = args.val_ratio /\ other.seed = args.seed) =>
    /\ (other.err = "none") <=> (status = "open")
    /\ other.val_indices = val_indices
    /\ \A i \in 0..(args.n - 1) : (i \in other.val_indices) <=> (i \in val_indices)

C3_Witness ==
  /\ status = "open" /\ other.done /\ other.err = "none"
  /\ other.n = args.n /\ other.val_ratio = args.val_ratio /\ other.seed = args.seed
  /\ other.content # content
  /\ args.n = 3 /\ entropy = 1
  /\ other.val_indices = val_indices /\ val_indices # {}

(* C4: a construction with val_ratio <= 0, val_ratio >= 1 or N < 1 fails and
   leaves no validation set. *)
C4_ValidatesConfig ==
  (status # "new" /\ args.exists
     /\ (args.val_ratio[1] <= 0 \/ args.val_ratio[1] >= args.val_ratio[2] \/ args.n < 1)) =>
    status = "failed" /\ val_indices = {}

RequiredKeys == {"forward", "backward", "label"}

(* C5: get(i) on a line that is no JSON object, or an object lacking one of
   forward, backward, label, fails and returns no record. *)
C5_MalformedFailsAtGet ==
  (status = "open" /\ ret.op = "get"
     /\ Resolve(N, ret.arg[1]) \in 0..(N - 1)
     /\ LET line == content[Resolve(N, ret.arg[1]) + 1]
        IN line.kind # "object" \/ ~(RequiredKeys \subseteq DOMAIN line.doc)) =>
    ret.err # "none"

Directions == {"forward", "backward"}

SeriesLens(recs, d) == {Len(recs[b][d]) : b \in 1..Len(recs)}

VecLens(recs) ==
  UNION {UNION {UNION {{Len(recs[b][d][t][f]) : f \in Range(Fields)} :
                         t \in 1..Len(recs[b][d])} :
                  d \in Directions} :
           b \in 1..Len(recs)}

(* C6: collate on a batch in which two sequences of the same direction differ
   in length, or two field vectors differ in length, fails and returns no
   batch. *)
C6_RejectsNonUniform ==
  (ret.op = "collate"
     /\ (\E d \in Directions : Cardinality(SeriesLens(Recs, d)) > 1
         \/ Cardinality(VecLens(Recs)) > 1)) =>
    ret.err # "none" /\ ret.val = NoBatch

\* B >= 1 well-formed examples that share T >= 1 and F.
SharedShape(recs) ==
  /\ Len(recs) >= 1
  /\ \A b \in 1..Len(recs) : RequiredKeys \cup {"is_train"} \subseteq DOMAIN recs[b]
  /\ Cardinality(SeriesLens(recs, "forward") \cup SeriesLens(recs, "backward")) = 1
  /\ Len(recs[1].forward) >= 1
  /\ Cardinality(VecLens(recs)) = 1

\* The batch is the stack of the examples, element by element, under conv.
IsStack(recs, res, conv(_)) ==
  LET B == Len(recs)
      T == Len(recs[1].forward)
      F == Len(recs[1].forward[1].values)
  IN /\ res.err = "none"
     /\ \A d \in Directions : \A f \in Range(Fields) :
          /\ res.val[d][f].shape = <<B, T, F>>
          /\ \A b \in 1..B : \A t \in 1..T : \A j \in 1..F :
               res.val[d][f].data[b][t][j] = conv(recs[b][d][t][f][j])
     /\ res.val.labels.shape = <<B>>
     /\ res.val.is_train.shape = <<B>>
     /\ \A b \in 1..B :
          /\ res.val.labels.data[b] = conv(recs[b].label)
          /\ res.val.is_train.data[b] = conv(recs[b].is_train)

Same(v) == v

(* C7, as stated: for B >= 1 examples sharing T and F every output element
   equals the input element it is stacked from. *)
C7_ExactStack ==
  (ret.op = "collate" /\ SharedShape(Recs)) => IsStack(Recs, ret, Same)

(* C7, amended: for B >= 1 examples sharing T and F every output tensor has
   shape [B, T, F] (labels and is_train [B]) and every output element is the
   32-bit float nearest to the input element it is stacked from, in the
   input's order, field and direction. *)
C7_Float32Stack ==
  (ret.op = "collate" /\ SharedShape(Recs)) => IsStack(Recs, ret, Float32)

C7_Witness ==
  /\ ret.op = "collate" /\ ret.err = "none"
  /\ Len(objs) = 2 /\ SharedShape(Recs)
  /\ objs[1].label # objs[2].label
  /\ objs[1].label > Wide
  /\ ret.val.forward.values.shape = <<2, 2, 2>>
  /\ ret.val.labels.data[1] # objs[1].label

(* C8: once the dataset is open no call changes the stored lines or the
   validation set, and every get that returns hands out a new record, equal
   to what __getitem__ computes from the stored line, leaving the records
   handed out before as their holders left them. *)
C8_ReadOnly ==
  [][status = "open" =>
       /\ content' = content
       /\ val_indices' = val_indices
       /\ status' = "open"
       /\ (ret'.op = "get" /\ ret'.err = "none") =>
            /\ ret'.id = Len(objs) + 1
            /\ Len(objs') = Len(objs) + 1
            /\ SubSeq(objs', 1, Len(objs)) = objs
            /\ objs'[ret'.id] = GetItem(content, val_indices, ret'.arg[1]).rec]_vars

C8_Witness ==
  /\ status = "open" /\ N = 1
  /\ ret.op = "get" /\ ret.err = "none" /\ ret.id = 2 /\ ret.arg = <<0>>
  /\ objs[1].is_train = 0 - 1
  /\ objs[2].is_train = 0
  /\ SetItem(objs[1], "is_train", 0) = objs[2]

BatchLen(batch) == batch.labels.shape[1]

(* C9: when a pass over the loader is over, every index in [0, N) has been
   requested exactly once and ceil(N / batch_size) batches were delivered:
   all but the last hold batch_size examples, the last holds the remaining
   1..batch_size. *)
C9_FullPass ==
  loader.pc = "done" =>
    LET bs == loader.batch_size
        nb == (N + bs - 1) \div bs
    IN /\ N >= 1
       /\ \A i \in 1..N : loader.requested[i] = 1
       /\ Len(loader.delivered) = nb
       /\ \A k \in 1..(nb - 1) : BatchLen(loader.delivered[k]) = bs
       /\ BatchLen(loader.delivered[nb]) = N - (nb - 1) * bs
       /\ BatchLen(loader.delivered[nb]) \in 1..bs

C9_Witness ==
  /\ loader.pc = "done" /\ loader.shuffle /\ loader.num_workers = 2
  /\ N = 4 /\ loader.batch_size = 3
  /\ Len(loader.delivered) = 2
  /\ BatchLen(loader.delivered[2]) = 1

(* C10: every get(idx) that returns a record tags it 0 exactly when the index
   of the line parsed, N + idx for a negative idx, is in the validation set. *)
C10_TagDescribesLine ==
  (status = "open" /\ ret.op = "get" /\ ret.err = "none") =>
    (objs[ret.id].is_train = 0 <=> Resolve(N, ret.arg[1]) \in val_indices)

====
